---- MODULE Spec2Model ----
(***************************************************************************)
(* A model of newrality-transcribe: the TranscriptionService lifecycle     *)
(* (src/app/transcription.py), the upload ingestion (src/app/utils.py) and *)
(* the transcribe_audio request handler (src/app/main.py).                 *)
(***************************************************************************)
EXTENDS Integers, Sequences, FiniteSets, TLC

\* ------------------------------------------------------------------ bounds

\* wait_for_model sleeps 0.5 s per poll until `timeout` seconds have elapsed:
\* the timeout elapses after MaxPolls sleeps.
MaxPolls == 2

\* Threads that call load_model_async; each call spawns at most one _load thread.
Callers == {"c1", "c2"}

\* Request contexts (handler invocations, or threads calling the service).
Reqs == {"r1", "r2"}

NoReq == "none"
Threads == "threads"
NoThread == "none"

\* Values of TranscriptionService.model and .load_error
ModelNone == "None"
WhisperModel == "WhisperModel"
ErrNone == "None"
LoadFailedMsg == "Failed to load Whisper model"
NotStartedMsg == "Model loading timeout or model not started"

VARIABLES
    model,          \* self.model
    loading,        \* self.loading
    load_error,     \* self.load_error
    load_lock,      \* holder of self._load_lock, NoThread when free
    constructs,     \* WhisperModel(...) calls begun so far
    escaped,        \* TRUE once a constructor call was left by an uncaught exception
    cpc,            \* per caller: position in load_model_async / its _load thread
    rpc,            \* per request context: position in transcribe / wait_for_model
    direct,         \* per request context: TRUE when it calls wait_for_model itself
    entry,          \* per request context: lifecycle state seen when it began to wait
    elapsed,        \* per request context: polls slept in wait_for_model
    wres,           \* per request context: how wait_for_model ended
    loop,           \* request the event-loop thread runs; Threads: one thread per context
    filename,       \* per request: file.filename as a sequence of characters
    size,           \* per request: bytes the upload stream holds
    file_size,      \* per request: file_size of save_upload_to_temp (bytes read so far)
    disk,           \* per request: bytes in the file at temp_path, NoFile when it does not exist
    temp_file_path, \* per request: TRUE once transcribe_audio's temp_file_path is assigned
    status,         \* per request: HTTP status the handler answers with, 0 while undecided
    rmfail,         \* per request: TRUE once an os.remove of its temp file has raised
    tpc,            \* one transcribe call: its position after the model check
    request,        \* one transcribe call: the arguments it was called with
    language,       \* one transcribe call: local `language`
    temperature,    \* one transcribe call: local `temperature`, in tenths
    beam_size,      \* one transcribe call: local `beam_size`
    engine_args,    \* what self.model.transcribe was called with, <<>> before the call
    stream,         \* the segments the engine's generator holds
    info_language,  \* info.language of the engine's answer
    pulled,         \* segments pulled from the generator so far
    full_text_parts,\* local `full_text_parts`
    segments_list,  \* local `segments_list`
    result          \* what transcribe returned, <<>> before the return

lifeVars == <<model, loading, load_error, load_lock, constructs, escaped, cpc>>
waitVars == <<rpc, direct, entry, elapsed, wres>>
fileVars == <<filename, size, file_size, disk, temp_file_path, status, rmfail>>
callVars == <<tpc, request, language, temperature, beam_size, engine_args,
              stream, info_language, pulled, full_text_parts, segments_list, result>>
vars == <<model, loading, load_error, load_lock, constructs, escaped, cpc,
          rpc, direct, entry, elapsed, wres, loop,
          filename, size, file_size, disk, temp_file_path, status, rmfail,
          tpc, request, language, temperature, beam_size, engine_args,
          stream, info_language, pulled, full_text_parts, segments_list, result>>

\* --------------------------------------------------------- lifecycle state

\* The LoadState the fields encode, in the order wait_for_model tests them.
LoadState ==
    IF load_error # ErrNone THEN "Failed"
    ELSE IF model # ModelNone THEN "Ready"
    ELSE IF loading THEN "Loading"
    ELSE "Uninitialized"

\* A _load thread was started and has not yet reached line 37.
LoadPending == \E c \in Callers : cpc[c] \in {"t_acquire", "t_check"}

\* What a context entering transcribe or wait_for_model finds: LoadState, with
\* "Started" for Uninitialized while a _load thread is on its way.
EntryState ==
    IF LoadState = "Uninitialized" /\ LoadPending THEN "Started" ELSE LoadState

\* get_model_info (lines 179-186): the field that depends on the lifecycle.
get_model_info == [loaded |-> model # ModelNone]

\* ------------------------------------------------------- load_model_async

\* A caller enters load_model_async.
LMA_Call(c) ==
    /\ cpc[c] = "idle"
    /\ cpc' = [cpc EXCEPT ![c] = "lma_model"]
    /\ UNCHANGED <<model, loading, load_error, load_lock, constructs>>
    /\ UNCHANGED <<waitVars, loop, fileVars>>
    /\ UNCHANGED callVars
    /\ UNCHANGED escaped

\* `self.model is not None` of line 29.
LMA_ReadModel(c) ==
    /\ cpc[c] = "lma_model"
    /\ cpc' = [cpc EXCEPT ![c] = IF model # ModelNone THEN "returned" ELSE "lma_loading"]
    /\ UNCHANGED <<model, loading, load_error, load_lock, constructs>>
    /\ UNCHANGED <<waitVars, loop, fileVars>>
    /\ UNCHANGED callVars
    /\ UNCHANGED escaped

\* `or self.loading` of line 29, then Thread(target=_load).start().
LMA_ReadLoading(c) ==
    /\ cpc[c] = "lma_loading"
    /\ cpc' = [cpc EXCEPT ![c] = IF loading THEN "returned" ELSE "t_acquire"]
    /\ UNCHANGED <<model, loading, load_error, load_lock, constructs>>
    /\ UNCHANGED <<waitVars, loop, fileVars>>
    /\ UNCHANGED callVars
    /\ UNCHANGED escaped

\* ------------------------------------------------------------ _load thread

\* Mutant of T_Acquire: the with block is entered without the lock being free.
T_AcquireUnlocked(c) ==
    /\ cpc[c] = "t_acquire"
    /\ load_lock' = c
    /\ cpc' = [cpc EXCEPT ![c] = "t_check"]
    /\ UNCHANGED <<model, loading, load_error, constructs>>
    /\ UNCHANGED <<waitVars, loop, fileVars>>
    /\ UNCHANGED callVars
    /\ UNCHANGED escaped

\* `with self._load_lock:` entered.
T_Acquire(c) ==
    /\ cpc[c] = "t_acquire"
    /\ load_lock = NoThread
    /\ load_lock' = c
    /\ cpc' = [cpc EXCEPT ![c] = "t_check"]
    /\ UNCHANGED <<model, loading, load_error, constructs>>
    /\ UNCHANGED <<waitVars, loop, fileVars>>
    /\ UNCHANGED callVars
    /\ UNCHANGED escaped

\* Line 34: return when the model is set; else loading = True and the
\* WhisperModel constructor is entered.
T_Check(c) ==
    /\ cpc[c] = "t_check"
    /\ IF model # ModelNone
       THEN /\ cpc' = [cpc EXCEPT ![c] = "t_release"]
            /\ UNCHANGED <<loading, constructs>>
       ELSE /\ loading' = TRUE
            /\ constructs' = constructs + 1
            /\ cpc' = [cpc EXCEPT ![c] = "t_inside"]
    /\ UNCHANGED <<model, load_error, load_lock>>
    /\ UNCHANGED <<waitVars, loop, fileVars>>
    /\ UNCHANGED callVars
    /\ UNCHANGED escaped

\* The constructor returns: self.model = WhisperModel(...).
T_Ok(c) ==
    /\ cpc[c] = "t_inside"
    /\ model' = WhisperModel
    /\ cpc' = [cpc EXCEPT ![c] = "t_finally"]
    /\ UNCHANGED <<loading, load_error, load_lock, constructs>>
    /\ UNCHANGED <<waitVars, loop, fileVars>>
    /\ UNCHANGED callVars
    /\ UNCHANGED escaped

\* The constructor raises. An Exception is caught (line 54) and
\* self.load_error = error_msg; an exception that is no Exception (SystemExit)
\* passes the except clause with nothing written. Both reach the finally.
T_Raise(c) ==
    /\ cpc[c] = "t_inside"
    /\ \/ /\ load_error' = LoadFailedMsg
          /\ UNCHANGED escaped
       \/ /\ escaped' = TRUE
          /\ UNCHANGED load_error
    /\ cpc' = [cpc EXCEPT ![c] = "t_finally"]
    /\ UNCHANGED <<model, loading, load_lock, constructs>>
    /\ UNCHANGED <<waitVars, loop, fileVars>>
    /\ UNCHANGED callVars

\* finally: self.loading = False.
T_Finally(c) ==
    /\ cpc[c] = "t_finally"
    /\ loading' = FALSE
    /\ cpc' = [cpc EXCEPT ![c] = "t_release"]
    /\ UNCHANGED <<model, load_error, load_lock, constructs>>
    /\ UNCHANGED <<waitVars, loop, fileVars>>
    /\ UNCHANGED callVars
    /\ UNCHANGED escaped

\* The with block is left: the lock is released and the thread ends.
T_Release(c) ==
    /\ cpc[c] = "t_release"
    /\ load_lock' = NoThread
    /\ cpc' = [cpc EXCEPT ![c] = "t_done"]
    /\ UNCHANGED <<model, loading, load_error, constructs>>
    /\ UNCHANGED <<waitVars, loop, fileVars>>
    /\ UNCHANGED callVars
    /\ UNCHANGED escaped

\* -------------------------------------------------------------- scheduling

\* transcribe_audio is a coroutine: between two awaits it runs on the one
\* event-loop thread and no other handler runs. A context that owns a thread
\* (loop = Threads) is never held back.
CanRun(r) == loop \in {Threads, NoReq, r}
Hold(r) == IF loop = Threads THEN Threads ELSE r
Yield == IF loop = Threads THEN Threads ELSE NoReq

\* ----------------------------------------------- transcribe, wait_for_model

\* A thread calls transcription_service.transcribe(...).
R_CallTranscribe(r) ==
    /\ loop = Threads
    /\ rpc[r] = "idle"
    /\ rpc' = [rpc EXCEPT ![r] = "tr_check"]
    /\ UNCHANGED <<direct, entry, elapsed, wres>>
    /\ UNCHANGED <<lifeVars, loop, fileVars>>
    /\ UNCHANGED callVars

\* A thread calls transcription_service.wait_for_model() itself (line 66).
R_CallWait(r) ==
    /\ loop = Threads
    /\ rpc[r] = "idle"
    /\ rpc' = [rpc EXCEPT ![r] = "w_model"]
    /\ direct' = [direct EXCEPT ![r] = TRUE]
    /\ entry' = [entry EXCEPT ![r] = EntryState]
    /\ UNCHANGED <<elapsed, wres>>
    /\ UNCHANGED <<lifeVars, loop, fileVars>>
    /\ UNCHANGED callVars

\* `if not self.model:` of line 103; when unset, wait_for_model is entered.
Tr_Check(r) ==
    /\ rpc[r] = "tr_check"
    /\ CanRun(r)
    /\ rpc' = [rpc EXCEPT ![r] = IF model # ModelNone THEN "engine" ELSE "w_model"]
    /\ entry' = [entry EXCEPT ![r] = EntryState]
    /\ loop' = Hold(r)
    /\ UNCHANGED <<direct, elapsed, wres>>
    /\ UNCHANGED <<lifeVars, fileVars>>
    /\ UNCHANGED callVars

\* `self.model is None` of the loop condition, line 67.
W_Model(r) ==
    /\ rpc[r] = "w_model"
    /\ CanRun(r)
    /\ rpc' = [rpc EXCEPT ![r] = IF model = ModelNone THEN "w_loading" ELSE "w_err"]
    /\ loop' = Hold(r)
    /\ UNCHANGED <<direct, entry, elapsed, wres>>
    /\ UNCHANGED <<lifeVars, fileVars>>
    /\ UNCHANGED callVars

\* `and self.loading` of the loop condition, line 67.
W_Loading(r) ==
    /\ rpc[r] = "w_loading"
    /\ CanRun(r)
    /\ rpc' = [rpc EXCEPT ![r] = IF loading THEN "w_time" ELSE "w_err"]
    /\ loop' = Hold(r)
    /\ UNCHANGED <<direct, entry, elapsed, wres>>
    /\ UNCHANGED <<lifeVars, fileVars>>
    /\ UNCHANGED callVars

\* Mutant of TimeLeft: the timeout is taken one poll early.
TimeLeftShort(polls) == polls + 1 < MaxPolls

\* Mutant of TimeLeft: the elapsed time is never compared with the timeout.
TimeLeftAlways(polls) == TRUE

\* `time.time() - start_time < timeout`, with one sleep(0.5) per poll.
TimeLeft(polls) == polls < MaxPolls

\* The last conjunct of line 67 and the sleep of line 68.
W_Time(r) ==
    /\ rpc[r] = "w_time"
    /\ CanRun(r)
    /\ IF TimeLeft(elapsed[r])
       THEN /\ elapsed' = [elapsed EXCEPT ![r] = IF @ < MaxPolls THEN @ + 1 ELSE @]
            /\ rpc' = [rpc EXCEPT ![r] = "w_model"]
       ELSE /\ rpc' = [rpc EXCEPT ![r] = "w_err"]
            /\ UNCHANGED elapsed
    /\ loop' = Hold(r)
    /\ UNCHANGED <<direct, entry, wres>>
    /\ UNCHANGED <<lifeVars, fileVars>>
    /\ UNCHANGED callVars

\* `if self.load_error:` of line 70.
ErrorRaised(err) == err # ErrNone

\* Lines 70-71: raise RuntimeError(self.load_error).
W_Err(r) ==
    /\ rpc[r] = "w_err"
    /\ CanRun(r)
    /\ IF ErrorRaised(load_error)
       THEN /\ rpc' = [rpc EXCEPT ![r] = "tr_unavailable"]
            /\ wres' = [wres EXCEPT ![r] = load_error]
       ELSE /\ rpc' = [rpc EXCEPT ![r] = "w_final"]
            /\ UNCHANGED wres
    /\ loop' = Hold(r)
    /\ UNCHANGED <<direct, entry, elapsed>>
    /\ UNCHANGED <<lifeVars, fileVars>>
    /\ UNCHANGED callVars

\* Lines 73-74: raise when the model is still unset, else return.
W_Final(r) ==
    /\ rpc[r] = "w_final"
    /\ CanRun(r)
    /\ IF model = ModelNone
       THEN /\ rpc' = [rpc EXCEPT ![r] = "tr_unavailable"]
            /\ wres' = [wres EXCEPT ![r] = NotStartedMsg]
       ELSE /\ rpc' = [rpc EXCEPT ![r] = IF direct[r] THEN "w_returned" ELSE "engine"]
            /\ wres' = [wres EXCEPT ![r] = "returned"]
    /\ loop' = Hold(r)
    /\ UNCHANGED <<direct, entry, elapsed>>
    /\ UNCHANGED <<lifeVars, fileVars>>
    /\ UNCHANGED callVars

\* self.model.transcribe(...) is called (line 125).
E_Begin(r) ==
    /\ rpc[r] = "engine"
    /\ CanRun(r)
    /\ rpc' = [rpc EXCEPT ![r] = "in_engine"]
    /\ loop' = Hold(r)
    /\ UNCHANGED <<direct, entry, elapsed, wres>>
    /\ UNCHANGED <<lifeVars, fileVars>>
    /\ UNCHANGED callVars

\* The segment stream is consumed and transcribe returns (lines 139-173).
E_Ok(r) ==
    /\ rpc[r] = "in_engine"
    /\ CanRun(r)
    /\ rpc' = [rpc EXCEPT ![r] = "tr_returned"]
    /\ loop' = Hold(r)
    /\ UNCHANGED <<direct, entry, elapsed, wres>>
    /\ UNCHANGED <<lifeVars, fileVars>>
    /\ UNCHANGED callVars

\* The engine raises: raise Exception("Transcription failed: ...") (175-177).
E_Raise(r) ==
    /\ rpc[r] = "in_engine"
    /\ CanRun(r)
    /\ rpc' = [rpc EXCEPT ![r] = "tr_failed"]
    /\ loop' = Hold(r)
    /\ UNCHANGED <<direct, entry, elapsed, wres>>
    /\ UNCHANGED <<lifeVars, fileVars>>
    /\ UNCHANGED callVars

\* ------------------------------------------------------ validate_audio_file

\* settings.allowed_formats_list for the default "mp3,wav,m4a,ogg,flac,webm".
allowed_formats_list ==
    { <<"m","p","3">>, <<"w","a","v">>, <<"m","4","a">>, <<"o","g","g">>,
      <<"f","l","a","c">>, <<"w","e","b","m">> }

\* Filenames a request may carry; <<>> is a missing (None or empty) filename.
Filenames ==
    { <<>>,
      <<"a",".","F","L","a","c","/">>,
      <<"a",".","x","y","z">>,
      <<".","m","p","3">>,
      <<"w","a","v">>,
      <<"a",".","m","p","3","/","b">>,
      <<"a",".","m","p","3","/",".",".">>,
      <<"a",".","w","a","v","e">> }

\* The cased characters of the filenames' alphabet (ASCII).
UpperCase ==
    <<"A", "B", "C", "D", "E", "F", "G", "H", "I", "J", "K", "L", "M",
      "N", "O", "P", "Q", "R", "S", "T", "U", "V", "W", "X", "Y", "Z">>
LowerCase ==
    <<"a", "b", "c", "d", "e", "f", "g", "h", "i", "j", "k", "l", "m",
      "n", "o", "p", "q", "r", "s", "t", "u", "v", "w", "x", "y", "z">>

\* str.lower() on one character.
LowerChar(ch) ==
    IF \E i \in DOMAIN UpperCase : UpperCase[i] = ch
    THEN LowerCase[CHOOSE i \in DOMAIN UpperCase : UpperCase[i] = ch]
    ELSE ch

Lower(str) == [i \in 1..Len(str) |-> LowerChar(str[i])]

\* str.rfind(ch): the last index (from 1) holding ch, 0 when there is none.
RFind(str, ch) ==
    LET hits == {i \in 1..Len(str) : str[i] = ch}
    IN  IF hits = {} THEN 0 ELSE CHOOSE i \in hits : \A j \in hits : j <= i

\* str.split("/")
RECURSIVE SplitSlash(_)
SplitSlash(str) ==
    LET hits == {i \in 1..Len(str) : str[i] = "/"}
    IN  IF hits = {} THEN <<str>>
        ELSE LET i == CHOOSE h \in hits : \A j \in hits : h <= j
             IN  <<SubSeq(str, 1, i - 1)>> \o SplitSlash(SubSeq(str, i + 1, Len(str)))

\* The components PurePosixPath keeps: empty ones (doubled, leading and
\* trailing slashes) and "." are dropped, ".." is kept.
KeptPart(part) == part # <<>> /\ part # <<".">>
PathParts(str) == SelectSeq(SplitSlash(str), KeptPart)

\* PurePath.name: the final component, empty when there is none.
PathName(str) ==
    LET parts == PathParts(str)
    IN  IF parts = <<>> THEN <<>> ELSE parts[Len(parts)]

\* PurePath.suffix: from the last dot of the name on, unless that dot leads or
\* ends the name.
PathSuffix(str) ==
    LET name == PathName(str)
        i == RFind(name, ".")
    IN  IF 1 < i /\ i < Len(name) THEN SubSeq(name, i, Len(name)) ELSE <<>>

\* str.lstrip('.').
RECURSIVE LStripDot(_)
LStripDot(str) ==
    IF str # <<>> /\ Head(str) = "." THEN LStripDot(Tail(str)) ELSE str

\* Mutant of file_ext: filename.split('.')[-1].lower(), which takes a name
\* without a dot, or after a leading dot, for its own extension.
file_ext_split(name) == Lower(SubSeq(name, RFind(name, ".") + 1, Len(name)))

\* Line 40: Path(file.filename).suffix.lstrip('.').lower().
file_ext(name) == Lower(LStripDot(PathSuffix(name)))

\* Mutant of validate_audio_file: every upload passes.
validate_nothing(name) == TRUE

\* validate_audio_file: TRUE when it returns, FALSE when it raises the 400.
validate_audio_file(name) ==
    /\ name # <<>>
    /\ file_ext(name) \in allowed_formats_list

\* ------------------------------------------------------ save_upload_to_temp

\* settings.max_file_size_bytes, the upload read size of line 75 and the
\* largest upload, in the model's byte unit.
MaxFileSize == 2
ChunkSize == 1
MaxUpload == 4

NoFile == -1

Min(a, b) == IF a < b THEN a ELSE b

\* Mutant of TooLarge: the limit is noticed one byte late.
TooLargeLate(count) == count > MaxFileSize + 1

\* `if file_size > max_size:` of line 79.
TooLarge(count) == count > MaxFileSize

\* transcribe_audio is entered with an upload (lines 138-139).
H_Start(r) ==
    /\ rpc[r] = "idle"
    /\ CanRun(r)
    /\ loop # Threads
    /\ \E name \in Filenames, n \in 0..MaxUpload :
          /\ filename' = [filename EXCEPT ![r] = name]
          /\ size' = [size EXCEPT ![r] = n]
    /\ rpc' = [rpc EXCEPT ![r] = "validate"]
    /\ loop' = Hold(r)
    /\ UNCHANGED <<file_size, disk, temp_file_path, status, rmfail>>
    /\ UNCHANGED <<direct, entry, elapsed, wres>>
    /\ UNCHANGED lifeVars
    /\ UNCHANGED callVars

\* validate_audio_file(file), line 151: the 400 leaves through the handler's
\* `except HTTPException: raise`.
H_Validate(r) ==
    /\ rpc[r] = "validate"
    /\ CanRun(r)
    /\ IF validate_audio_file(filename[r])
       THEN /\ rpc' = [rpc EXCEPT ![r] = "open"]
            /\ UNCHANGED status
       ELSE /\ rpc' = [rpc EXCEPT ![r] = "finally"]
            /\ status' = [status EXCEPT ![r] = 400]
    /\ loop' = Hold(r)
    /\ UNCHANGED <<filename, size, file_size, disk, temp_file_path, rmfail>>
    /\ UNCHANGED <<direct, entry, elapsed, wres>>
    /\ UNCHANGED lifeVars
    /\ UNCHANGED callVars

\* open(temp_path, "wb") of line 74: the file is created, or open raises.
\* The coroutine then reaches `await file.read(8192)`, where the event loop
\* may run another handler.
H_Open(r) ==
    /\ rpc[r] = "open"
    /\ CanRun(r)
    /\ \/ /\ disk' = [disk EXCEPT ![r] = 0]
          /\ rpc' = [rpc EXCEPT ![r] = "read"]
          /\ loop' \in {Hold(r), Yield}
       \/ /\ rpc' = [rpc EXCEPT ![r] = "save_except"]
          /\ loop' = Hold(r)
          /\ UNCHANGED disk
    /\ UNCHANGED <<filename, size, file_size, temp_file_path, status, rmfail>>
    /\ UNCHANGED <<direct, entry, elapsed, wres>>
    /\ UNCHANGED lifeVars
    /\ UNCHANGED callVars

\* One turn of the loop of lines 75-91: a chunk is read and counted, then
\* written unless the count passed the limit; an empty chunk ends the loop and
\* line 154 assigns temp_file_path. read() or write() may raise.
H_Read(r) ==
    /\ rpc[r] = "read"
    /\ CanRun(r)
    /\ LET chunk == Min(ChunkSize, size[r] - file_size[r])
           count == file_size[r] + chunk
       IN  \/ /\ chunk = 0
              /\ temp_file_path' = [temp_file_path EXCEPT ![r] = TRUE]
              /\ rpc' = [rpc EXCEPT ![r] = "tr_check"]
              /\ loop' = Hold(r)
              /\ UNCHANGED <<file_size, disk>>
           \/ /\ chunk > 0
              /\ file_size' = [file_size EXCEPT ![r] = count]
              /\ IF TooLarge(count)
                 THEN /\ rpc' = [rpc EXCEPT ![r] = "too_large"]
                      /\ loop' = Hold(r)
                      /\ UNCHANGED disk
                 ELSE \/ /\ disk' = [disk EXCEPT ![r] = @ + chunk]
                         /\ rpc' = [rpc EXCEPT ![r] = "read"]
                         /\ loop' \in {Hold(r), Yield}
                      \/ /\ rpc' = [rpc EXCEPT ![r] = "save_except"]
                         /\ loop' = Hold(r)
                         /\ UNCHANGED disk
              /\ UNCHANGED temp_file_path
           \/ /\ rpc' = [rpc EXCEPT ![r] = "save_except"]
              /\ loop' = Hold(r)
              /\ UNCHANGED <<file_size, disk, temp_file_path>>
    /\ UNCHANGED <<filename, size, status, rmfail>>
    /\ UNCHANGED <<direct, entry, elapsed, wres>>
    /\ UNCHANGED lifeVars
    /\ UNCHANGED callVars

\* Mutant of H_TooLarge: the 413 is raised with the partial file left in place.
H_TooLargeKeepsFile(r) ==
    /\ rpc[r] = "too_large"
    /\ CanRun(r)
    /\ status' = [status EXCEPT ![r] = 413]
    /\ rpc' = [rpc EXCEPT ![r] = "finally"]
    /\ loop' = Hold(r)
    /\ UNCHANGED <<filename, size, file_size, disk, temp_file_path, rmfail>>
    /\ UNCHANGED <<direct, entry, elapsed, wres>>
    /\ UNCHANGED lifeVars
    /\ UNCHANGED callVars

\* Lines 81-89: the partial file is closed and removed and the 413 is raised;
\* a close (line 81) or an os.remove (line 83) that raises lands in
\* `except Exception` of line 97.
H_TooLarge(r) ==
    /\ rpc[r] = "too_large"
    /\ CanRun(r)
    /\ \/ /\ disk' = [disk EXCEPT ![r] = NoFile]
          /\ status' = [status EXCEPT ![r] = 413]
          /\ rpc' = [rpc EXCEPT ![r] = "finally"]
          /\ UNCHANGED rmfail
       \/ /\ rpc' = [rpc EXCEPT ![r] = "save_except"]
          /\ UNCHANGED <<disk, status, rmfail>>
       \/ /\ disk[r] # NoFile
          /\ rmfail' = [rmfail EXCEPT ![r] = TRUE]
          /\ rpc' = [rpc EXCEPT ![r] = "save_except"]
          /\ UNCHANGED <<disk, status>>
    /\ loop' = Hold(r)
    /\ UNCHANGED <<filename, size, file_size, temp_file_path>>
    /\ UNCHANGED <<direct, entry, elapsed, wres>>
    /\ UNCHANGED lifeVars
    /\ UNCHANGED callVars

\* Lines 97-104: the file is removed when it exists and a 500 is raised; an
\* os.remove that raises here leaves save_upload_to_temp as it is and becomes
\* the 500 of the handler's `except Exception` (lines 190-199).
H_SaveExcept(r) ==
    /\ rpc[r] = "save_except"
    /\ CanRun(r)
    /\ \/ /\ disk' = [disk EXCEPT ![r] = NoFile]
          /\ UNCHANGED rmfail
       \/ /\ disk[r] # NoFile
          /\ rmfail' = [rmfail EXCEPT ![r] = TRUE]
          /\ UNCHANGED disk
    /\ status' = [status EXCEPT ![r] = 500]
    /\ rpc' = [rpc EXCEPT ![r] = "finally"]
    /\ loop' = Hold(r)
    /\ UNCHANGED <<filename, size, file_size, temp_file_path>>
    /\ UNCHANGED <<direct, entry, elapsed, wres>>
    /\ UNCHANGED lifeVars
    /\ UNCHANGED callVars

\* The request is cancelled while suspended in `await file.read`: a
\* CancelledError is raised at line 75 when the coroutine is resumed.
H_Cancel(r) ==
    /\ rpc[r] = "read"
    /\ loop \notin {Threads, r}
    /\ rpc' = [rpc EXCEPT ![r] = "unwind"]
    /\ UNCHANGED <<loop, fileVars>>
    /\ UNCHANGED <<direct, entry, elapsed, wres>>
    /\ UNCHANGED lifeVars
    /\ UNCHANGED callVars

\* The CancelledError leaves the with block of line 74, which closes the file.
\* It is no Exception, so it passes both except clauses and reaches the
\* handler's finally; a close that raises (an OSError) replaces it and lands
\* in `except Exception` of line 97.
H_Unwind(r) ==
    /\ rpc[r] = "unwind"
    /\ CanRun(r)
    /\ \/ rpc' = [rpc EXCEPT ![r] = "cancelled"]
       \/ rpc' = [rpc EXCEPT ![r] = "save_except"]
    /\ loop' = Hold(r)
    /\ UNCHANGED fileVars
    /\ UNCHANGED <<direct, entry, elapsed, wres>>
    /\ UNCHANGED lifeVars
    /\ UNCHANGED callVars

\* ---------------------------------------------------------- transcribe_audio

\* Lines 179-184: the response is built from what transcribe returned.
H_Return(r) ==
    /\ rpc[r] = "tr_returned"
    /\ CanRun(r)
    /\ loop # Threads
    /\ status' = [status EXCEPT ![r] = 200]
    /\ rpc' = [rpc EXCEPT ![r] = "finally"]
    /\ loop' = Hold(r)
    /\ UNCHANGED <<filename, size, file_size, disk, temp_file_path, rmfail>>
    /\ UNCHANGED <<direct, entry, elapsed, wres>>
    /\ UNCHANGED lifeVars
    /\ UNCHANGED callVars

\* Lines 190-199: what transcribe raised becomes an HTTPException with 500.
H_Except(r) ==
    /\ rpc[r] \in {"tr_unavailable", "tr_failed"}
    /\ CanRun(r)
    /\ loop # Threads
    /\ status' = [status EXCEPT ![r] = 500]
    /\ rpc' = [rpc EXCEPT ![r] = "finally"]
    /\ loop' = Hold(r)
    /\ UNCHANGED <<filename, size, file_size, disk, temp_file_path, rmfail>>
    /\ UNCHANGED <<direct, entry, elapsed, wres>>
    /\ UNCHANGED lifeVars
    /\ UNCHANGED callVars

\* Mutant of CleanupWanted: the finally clause never cleans up.
CleanupNever(path) == FALSE

\* `if temp_file_path:` of line 203.
CleanupWanted(path) == path

\* Mutant of H_Finally: an os.remove that raises in the cleanup replaces the
\* request's result by a 500.
H_FinallyPropagates(r) ==
    /\ rpc[r] \in {"finally", "cancelled"}
    /\ CanRun(r)
    /\ IF CleanupWanted(temp_file_path[r]) /\ disk[r] # NoFile
       THEN \/ /\ disk' = [disk EXCEPT ![r] = NoFile]
               /\ UNCHANGED <<rmfail, status>>
            \/ /\ rmfail' = [rmfail EXCEPT ![r] = TRUE]
               /\ status' = [status EXCEPT ![r] = 500]
               /\ UNCHANGED disk
       ELSE UNCHANGED <<disk, rmfail, status>>
    /\ rpc' = [rpc EXCEPT ![r] = IF rpc[r] = "cancelled" THEN "gone" ELSE "done"]
    /\ loop' = Yield
    /\ UNCHANGED <<filename, size, file_size, temp_file_path>>
    /\ UNCHANGED <<direct, entry, elapsed, wres>>
    /\ UNCHANGED lifeVars
    /\ UNCHANGED callVars

\* Lines 201-209 with cleanup_temp_file (utils.py 114-119): the file is removed
\* when it exists; an os.remove that raises is swallowed. Then the response or
\* the error leaves the handler.
H_Finally(r) ==
    /\ rpc[r] \in {"finally", "cancelled"}
    /\ CanRun(r)
    /\ IF CleanupWanted(temp_file_path[r]) /\ disk[r] # NoFile
       THEN \/ /\ disk' = [disk EXCEPT ![r] = NoFile]
               /\ UNCHANGED rmfail
            \/ /\ rmfail' = [rmfail EXCEPT ![r] = TRUE]
               /\ UNCHANGED disk
       ELSE UNCHANGED <<disk, rmfail>>
    /\ rpc' = [rpc EXCEPT ![r] = IF rpc[r] = "cancelled" THEN "gone" ELSE "done"]
    /\ loop' = Yield
    /\ UNCHANGED <<filename, size, file_size, temp_file_path, status>>
    /\ UNCHANGED <<direct, entry, elapsed, wres>>
    /\ UNCHANGED lifeVars
    /\ UNCHANGED callVars

\* ------------------------------------------- transcribe, once the model is set

\* Optional values: None is the empty tuple, a value v is the tuple <<v>>.
None == <<>>
Some(v) == <<v>>

\* Settings of config.py; temperatures are counted in tenths.
default_language == "it"
default_temperature == 0
default_beam_size == 5
enable_vad_filter == TRUE

\* Longest segment stream the engine emits.
MaxSegments == 2

\* What a request can put in the query (main.py 109-129): any string for the
\* language, 0.0..1.0 for the temperature, 1..10 for the beam size, or nothing.
Languages == {None, Some(""), Some("en"), Some("it")}
Temperatures == {None, Some(0), Some(10)}
BeamSizes == {None, Some(1), Some(10)}

\* What the engine can answer: the language in its info, and its segments.
\* A segment's text is the sequence of its characters' code points:
\* "\xa0hi ", "\r\n\u200b\u2003b\x0b" and "\u3000\f".
EngineLanguages == {None, Some(""), Some("en"), Some("fr")}
EngineSegments ==
    { [id |-> 1, start |-> 0, end |-> 2, text |-> <<160, 104, 105, 32>>],
      [id |-> 2, start |-> 2, end |-> 5, text |-> <<13, 10, 8203, 8195, 98, 11>>],
      [id |-> 7, start |-> 5, end |-> 5, text |-> <<12288, 12>>] }
Streams == UNION {[1..n -> EngineSegments] : n \in 0..MaxSegments}

\* str.strip(): leading and trailing whitespace is removed. These are the
\* code points of the characters str.isspace() holds for: \t \n \x0b \f \r,
\* \x1c..\x1f, the space, \x85, \xa0, U+1680, U+2000..U+200A, U+2028, U+2029,
\* U+202F, U+205F and U+3000.
Whitespace ==
    (9..13) \cup (28..31) \cup {32, 133, 160, 5760} \cup (8192..8202)
        \cup {8232, 8233, 8239, 8287, 12288}

RECURSIVE LStrip(_)
LStrip(str) ==
    IF str # <<>> /\ Head(str) \in Whitespace THEN LStrip(Tail(str)) ELSE str

RECURSIVE RStrip(_)
RStrip(str) ==
    IF str # <<>> /\ str[Len(str)] \in Whitespace
    THEN RStrip(SubSeq(str, 1, Len(str) - 1))
    ELSE str

\* Mutant of Strip: the text is kept as the engine gave it.
StripNothing(str) == str

Strip(str) == RStrip(LStrip(str))

\* " ".join(parts): 32 is the space.
RECURSIVE Join(_)
Join(parts) ==
    IF parts = <<>> THEN <<>>
    ELSE IF Len(parts) = 1 THEN parts[1]
    ELSE parts[1] \o <<32>> \o Join(Tail(parts))

\* Mutant of resolve_language: the request's language is not looked at.
resolve_language_default(lang) == default_language

\* `language or settings.default_language` (line 108): None and "" are falsy.
resolve_language(lang) ==
    IF lang # None /\ lang[1] # "" THEN lang[1] ELSE default_language

\* `temperature if temperature is not None else settings.default_temperature`
resolve_temperature(temp) ==
    IF temp # None THEN temp[1] ELSE default_temperature

\* `beam_size or settings.default_beam_size` (line 110): None and 0 are falsy.
resolve_beam_size(beam) ==
    IF beam # None /\ beam[1] # 0 THEN beam[1] ELSE default_beam_size

\* Mutant of detected_language: the input language wins over the engine's.
detected_language_input(info_lang, lang) == lang

\* `info.language if info.language else language` (line 156).
detected_language(info_lang, lang) ==
    IF info_lang # None /\ info_lang[1] # "" THEN info_lang[1] ELSE lang

\* TranscriptionSegment(id, start, end, text=segment.text.strip()), 142-149.
TranscriptionSegment(segment) ==
    [id |-> segment.id, start |-> segment.start, end |-> segment.end,
     text |-> Strip(segment.text)]

oldVars == <<lifeVars, waitVars, loop, fileVars>>

\* Lines 108-110: the three locals are replaced by their resolved values.
Tr_Resolve ==
    /\ tpc = "resolve"
    /\ language' = resolve_language(language)
    /\ temperature' = resolve_temperature(temperature)
    /\ beam_size' = resolve_beam_size(beam_size)
    /\ tpc' = "call"
    /\ UNCHANGED <<request, engine_args, stream, info_language, pulled,
                   full_text_parts, segments_list, result>>
    /\ UNCHANGED oldVars

\* Lines 125-137: the engine is called with the locals; it answers with a
\* generator and its info, or raises (lines 175-177).
Tr_Engine ==
    /\ tpc = "call"
    /\ engine_args' = Some([language |-> language, temperature |-> temperature,
                            beam_size |-> beam_size,
                            vad_filter |-> enable_vad_filter,
                            word_timestamps |-> FALSE])
    /\ \/ /\ stream' \in Streams
          /\ info_language' \in EngineLanguages
          /\ tpc' = "loop"
       \/ /\ tpc' = "failed"
          /\ UNCHANGED <<stream, info_language>>
    /\ UNCHANGED <<request, language, temperature, beam_size, pulled,
                   full_text_parts, segments_list, result>>
    /\ UNCHANGED oldVars

\* One turn of the loop of lines 139-150: the next segment is pulled from the
\* generator, or the generator raises.
Tr_Segment ==
    /\ tpc = "loop"
    /\ pulled < Len(stream)
    /\ \/ LET segment == stream[pulled + 1]
          IN  /\ pulled' = pulled + 1
              /\ full_text_parts' = Append(full_text_parts, Strip(segment.text))
              /\ segments_list' =
                    IF request.include_segments
                    THEN Append(segments_list, TranscriptionSegment(segment))
                    ELSE segments_list
              /\ UNCHANGED tpc
       \/ /\ tpc' = "failed"
          /\ UNCHANGED <<pulled, full_text_parts, segments_list>>
    /\ UNCHANGED <<request, language, temperature, beam_size, engine_args,
                   stream, info_language, result>>
    /\ UNCHANGED oldVars

\* Lines 153-173: the generator is exhausted and the tuple is returned (the
\* processing time, its third member, is left out).
Tr_Return ==
    /\ tpc = "loop"
    /\ pulled = Len(stream)
    /\ result' = Some([text |-> Join(full_text_parts),
                       language |-> detected_language(info_language, language),
                       segments |-> IF request.include_segments
                                    THEN Some(segments_list) ELSE None])
    /\ tpc' = "returned"
    /\ UNCHANGED <<request, language, temperature, beam_size, engine_args,
                   stream, info_language, pulled, full_text_parts, segments_list>>
    /\ UNCHANGED oldVars

\* ------------------------------------------------------------ specification

\* No transcribe call is followed past its model check.
NoCall ==
    /\ tpc = "idle"
    /\ request = [language |-> None, temperature |-> None, beam_size |-> None,
                  include_segments |-> FALSE]
    /\ language = None
    /\ temperature = None
    /\ beam_size = None
    /\ engine_args = None
    /\ stream = <<>>
    /\ info_language = None
    /\ pulled = 0
    /\ full_text_parts = <<>>
    /\ segments_list = <<>>
    /\ result = None

\* TranscriptionService.__init__ (lines 19-25) and no request yet received.
InitService ==
    /\ model = ModelNone
    /\ loading = FALSE
    /\ load_error = ErrNone
    /\ load_lock = NoThread
    /\ constructs = 0
    /\ escaped = FALSE
    /\ cpc = [c \in Callers |-> "idle"]
    /\ rpc = [r \in Reqs |-> "idle"]
    /\ direct = [r \in Reqs |-> FALSE]
    /\ entry = [r \in Reqs |-> "none"]
    /\ elapsed = [r \in Reqs |-> 0]
    /\ wres = [r \in Reqs |-> "none"]
    /\ filename = [r \in Reqs |-> <<>>]
    /\ size = [r \in Reqs |-> 0]
    /\ file_size = [r \in Reqs |-> 0]
    /\ disk = [r \in Reqs |-> NoFile]
    /\ temp_file_path = [r \in Reqs |-> FALSE]
    /\ status = [r \in Reqs |-> 0]
    /\ rmfail = [r \in Reqs |-> FALSE]
    /\ NoCall

\* The load_model_async callers in `who` and their _load threads.
LoadNext(who) ==
    \E c \in who :
        \/ LMA_Call(c)
        \/ LMA_ReadModel(c)
        \/ LMA_ReadLoading(c)
        \/ T_Acquire(c)
        \/ T_Check(c)
        \/ T_Ok(c)
        \/ T_Raise(c)
        \/ T_Finally(c)
        \/ T_Release(c)

\* transcribe and wait_for_model, in whichever context runs them.
ServiceNext ==
    \E r \in Reqs :
        \/ Tr_Check(r)
        \/ W_Model(r)
        \/ W_Loading(r)
        \/ W_Time(r)
        \/ W_Err(r)
        \/ W_Final(r)
        \/ E_Begin(r)
        \/ E_Ok(r)
        \/ E_Raise(r)

\* The service driven by threads of its callers, in true parallel.
InitThreads == InitService /\ loop = Threads

ThreadsNext ==
    \/ LoadNext(Callers)
    \/ ServiceNext
    \/ \E r \in Reqs : R_CallTranscribe(r) \/ R_CallWait(r)

SpecThreads == InitThreads /\ [][ThreadsNext]_vars

\* The service behind the transcribe_audio handler, on one event loop.
Init == InitService /\ loop = NoReq

HandlerNext ==
    \E r \in Reqs :
        \/ H_Start(r)
        \/ H_Validate(r)
        \/ H_Open(r)
        \/ H_Read(r)
        \/ H_TooLarge(r)
        \/ H_SaveExcept(r)
        \/ H_Cancel(r)
        \/ H_Unwind(r)
        \/ H_Return(r)
        \/ H_Except(r)
        \/ H_Finally(r)

\* Behind the handler one caller, the process start-up, loads the model.
StartupCallers == {"c1"}

Next ==
    \/ LoadNext(StartupCallers)
    \/ ServiceNext
    \/ HandlerNext

Spec == Init /\ [][Next]_vars

\* Callers' threads with the one start-up load, where every context that is
\* inside wait_for_model is scheduled again and again; the _load thread is
\* promised nothing.
WaitStep(r) ==
    W_Model(r) \/ W_Loading(r) \/ W_Time(r) \/ W_Err(r) \/ W_Final(r)

WaitNext ==
    \/ LoadNext(StartupCallers)
    \/ ServiceNext
    \/ \E r \in Reqs : R_CallTranscribe(r) \/ R_CallWait(r)

FairWait ==
    InitThreads /\ [][WaitNext]_vars /\ \A r \in Reqs : WF_vars(WaitStep(r))

\* One call of transcribe with the model loaded, from line 107 on, for every
\* combination of arguments a request can carry.
InitTranscribe ==
    /\ model = WhisperModel
    /\ loading = FALSE
    /\ load_error = ErrNone
    /\ load_lock = NoThread
    /\ constructs = 1
    /\ escaped = FALSE
    /\ cpc = [c \in Callers |-> IF c \in StartupCallers THEN "returned" ELSE "idle"]
    /\ rpc = [r \in Reqs |-> "idle"]
    /\ direct = [r \in Reqs |-> FALSE]
    /\ entry = [r \in Reqs |-> "none"]
    /\ elapsed = [r \in Reqs |-> 0]
    /\ wres = [r \in Reqs |-> "none"]
    /\ loop = Threads
    /\ filename = [r \in Reqs |-> <<>>]
    /\ size = [r \in Reqs |-> 0]
    /\ file_size = [r \in Reqs |-> 0]
    /\ disk = [r \in Reqs |-> NoFile]
    /\ temp_file_path = [r \in Reqs |-> FALSE]
    /\ status = [r \in Reqs |-> 0]
    /\ rmfail = [r \in Reqs |-> FALSE]
    /\ tpc = "resolve"
    /\ request \in [language : Languages, temperature : Temperatures,
                     beam_size : BeamSizes, include_segments : BOOLEAN]
    /\ language = request.language
    /\ temperature = request.temperature
    /\ beam_size = request.beam_size
    /\ engine_args = None
    /\ stream = <<>>
    /\ info_language = None
    /\ pulled = 0
    /\ full_text_parts = <<>>
    /\ segments_list = <<>>
    /\ result = None

TranscribeNext ==
    \/ Tr_Resolve
    \/ Tr_Engine
    \/ Tr_Segment
    \/ Tr_Return

SpecTranscribe == InitTranscribe /\ [][TranscribeNext]_vars

\* ------------------------------------------------------------------ claims

InWait(r) == rpc[r] \in {"w_model", "w_loading", "w_time", "w_err", "w_final"}
WaitEnded(r) == wres[r] # "none"
Answered(r) == rpc[r] = "done"

\* C1 as stated: whenever a response or an error has left transcribe_audio,
\* the request's temp file no longer exists.
C1_Original ==
    \A r \in Reqs : Answered(r) => disk[r] = NoFile

\* C1, amended: whenever a response or an error has left transcribe_audio,
\* the request's temp file no longer exists, unless an os.remove of that file
\* raised (the failure is swallowed and the file is left behind).
C1_TempFileRemoved ==
    \A r \in Reqs : Answered(r) => (disk[r] = NoFile \/ rmfail[r])

\* An error answer after a successful ingestion, its temp file removed.
C1_Witness ==
    \E r \in Reqs :
        /\ Answered(r) /\ status[r] = 500 /\ temp_file_path[r]
        /\ disk[r] = NoFile /\ ~rmfail[r]

\* C2 as stated: however often and from wherever load_model_async is called,
\* at most one engine construction is ever begun.
C2_OneConstruction == constructs <= 1

\* C3 as stated: contexts that enter wait_for_model during one cold start (a
\* load was started and the model is not yet set) and do not time out see
\* exactly one construction and its outcome: all return when it succeeded, all
\* fail with its message when it failed.
C3_UniformOutcome ==
    \A r \in Reqs :
        (entry[r] \in {"Started", "Loading"} /\ WaitEnded(r) /\ elapsed[r] < MaxPolls)
            => /\ constructs = 1
               /\ \/ wres[r] = "returned" /\ model # ModelNone
                  \/ wres[r] = LoadFailedMsg /\ load_error # ErrNone

\* C4 as stated: a caller that finds the service Uninitialized gets the load
\* started, and one that does not start it blocks for the outcome: it never
\* fails before the timeout has elapsed.
C4_FirstCallerLoads ==
    \A r \in Reqs :
        (entry[r] = "Uninitialized" /\ WaitEnded(r))
            => /\ constructs >= 1
               /\ wres[r] = NotStartedMsg => elapsed[r] = MaxPolls

\* C5 as stated: once a construction has failed and load_error is set, no
\* further construction is begun.
C5_FailedIsTerminal ==
    [][load_error # ErrNone => constructs' = constructs]_vars

\* C6 as stated: wait_for_model returns only with the model set; a call
\* entered after a load has failed raises the captured message; and the
\* timeout/not-started message is never raised once a construction has failed,
\* whatever it was left by.
C6_WaitOutcome ==
    /\ [](\A r \in Reqs :
             /\ wres[r] = "returned" => model # ModelNone
             /\ (WaitEnded(r) /\ entry[r] = "Failed") => wres[r] = LoadFailedMsg
             /\ wres[r] = NotStartedMsg => entry[r] # "Failed"
             /\ wres[r] = LoadFailedMsg => load_error = LoadFailedMsg)
    /\ [][\A r \in Reqs :
             (wres[r] = "none" /\ wres'[r] = NotStartedMsg) => ~escaped]_vars

\* C7: a request that arrives while the state is Loading fails only when the
\* load failed (with its message captured, or left by an uncaught exception)
\* or when its timeout elapsed; after a timeout failure the engine is not
\* invoked for it; and it goes on to the engine only with the model set.
C7_ArrivesWhileLoading ==
    \A r \in Reqs :
        entry[r] = "Loading" =>
            /\ wres[r] = LoadFailedMsg => load_error # ErrNone
            /\ wres[r] = NotStartedMsg =>
                  (elapsed[r] = MaxPolls \/ escaped) /\ rpc[r] = "tr_unavailable"
            /\ wres[r] = "returned" => model # ModelNone
            /\ rpc[r] \in {"engine", "in_engine", "tr_returned", "tr_failed"}
                  => wres[r] = "returned"

\* One request blocked and then went through the engine, another timed out.
C7_Witness ==
    \E r1, r2 \in Reqs :
        /\ entry[r1] = "Loading" /\ elapsed[r1] > 0 /\ rpc[r1] = "tr_returned"
        /\ entry[r2] = "Loading" /\ wres[r2] = NotStartedMsg /\ elapsed[r2] = MaxPolls

\* C8: every wait_for_model call ends, whatever the _load threads do, and it
\* never sleeps more often than the timeout allows.
C8_WaitTerminates ==
    /\ \A r \in Reqs : InWait(r) ~> ~InWait(r)
    /\ [](\A r \in Reqs : elapsed[r] <= MaxPolls)

\* A call gave up after the full timeout while the load was still running.
C8_Witness ==
    \E r \in Reqs :
        /\ wres[r] = NotStartedMsg /\ elapsed[r] = MaxPolls
        /\ loading /\ model = ModelNone

\* C9 as stated: an upload whose byte count passed the limit ends in the 413
\* with no temp file left.
C9_Original ==
    \A r \in Reqs :
        (file_size[r] > MaxFileSize /\ rpc[r] \in {"finally", "done"})
            => status[r] = 413 /\ disk[r] = NoFile

\* C9, amended: an upload whose byte count passed the limit ends in the 413
\* with no temp file left, unless the close or the os.remove of the partial
\* file raised: then the answer is a 500, and the file is left only when an
\* os.remove raised.
C9_TooLargeRejected ==
    \A r \in Reqs :
        (file_size[r] > MaxFileSize /\ rpc[r] \in {"finally", "done"})
            => \/ status[r] = 413 /\ disk[r] = NoFile /\ ~rmfail[r]
               \/ status[r] = 500 /\ (disk[r] = NoFile \/ rmfail[r])

\* An upload one byte over the limit was answered 413, its partial file gone.
C9_Witness ==
    \E r \in Reqs :
        /\ Answered(r) /\ size[r] = MaxFileSize + 1 /\ file_size[r] > MaxFileSize
        /\ status[r] = 413 /\ disk[r] = NoFile

\* The filenames of Filenames that have no name or no allowed extension.
RejectedNames ==
    { <<>>,
      <<"a",".","x","y","z">>,
      <<".","m","p","3">>,
      <<"w","a","v">>,
      <<"a",".","m","p","3","/","b">>,
      <<"a",".","m","p","3","/",".",".">>,
      <<"a",".","w","a","v","e">> }

\* C10: a request whose filename is missing or whose extension is not allowed
\* is answered 400 with no byte of the upload read and no temp file created.
C10_RejectedBeforeRead ==
    \A r \in Reqs :
        (rpc[r] \notin {"idle", "validate"} /\ filename[r] \in RejectedNames)
            => /\ status[r] = 400
               /\ file_size[r] = 0
               /\ disk[r] = NoFile
               /\ ~temp_file_path[r]

\* "a.xyz" was answered 400.
C10_Witness ==
    \E r \in Reqs :
        /\ filename[r] = <<"a",".","x","y","z">>
        /\ Answered(r) /\ status[r] = 400

\* C11 as stated: each failure kind is answered with its one status: a missing
\* filename or a format that is not allowed with 400, an upload over the size
\* limit with 413 (or, when closing or removing its partial file raised
\* unexpectedly, 500), a model that is not ready, a wait that timed out or a
\* load that had failed with 503, and a failed inference or an unexpected
\* exception with 500.
C11_StatusMapping ==
    \A r \in Reqs :
        Answered(r) =>
            /\ filename[r] \in RejectedNames => status[r] = 400
            /\ file_size[r] > MaxFileSize => status[r] \in {413, 500}
            /\ wres[r] \in {NotStartedMsg, LoadFailedMsg} => status[r] = 503
            /\ status[r] \in {200, 400, 413, 503, 500}

\* C12 as stated: with request contexts running in true parallel, at most one
\* of them is inside the engine's transcribe call at any time.
C12_EngineSerialized ==
    Cardinality({r \in Reqs : rpc[r] = "in_engine"}) <= 1

\* C13 as stated: a request cancelled while its upload is streamed to the temp
\* file leaves no partial file behind once its handler has been left.
C13_CancelledIngestionCleaned ==
    \A r \in Reqs : rpc[r] = "gone" => disk[r] = NoFile

\* C14: the cleanup at the end of a request, whether its os.remove succeeds or
\* raises, leaves the handler with the status that was decided before it: the
\* 200 of the result or the status of the first error.
C14_CleanupNeverMasks ==
    [][\A r \in Reqs :
          (rpc[r] = "finally" /\ rpc'[r] = "done")
              => status'[r] = status[r] /\ status[r] \in {200, 400, 413, 500}]_vars

\* A request answered 200 although the os.remove of its cleanup raised, and
\* one answered with its inference error although the os.remove raised.
C14_Witness ==
    \E r1, r2 \in Reqs :
        /\ Answered(r1) /\ temp_file_path[r1] /\ rmfail[r1] /\ status[r1] = 200
        /\ Answered(r2) /\ temp_file_path[r2] /\ rmfail[r2] /\ status[r2] = 500

\* C15 as stated: the engine is called with the configured default for each
\* of language, temperature and beam_size that the request left unset, and
\* with the request's own value, unchanged, for each that it supplied.
C15_Original ==
    engine_args # None =>
        /\ engine_args[1].language =
              IF request.language = None THEN default_language
              ELSE request.language[1]
        /\ engine_args[1].temperature =
              IF request.temperature = None THEN default_temperature
              ELSE request.temperature[1]
        /\ engine_args[1].beam_size =
              IF request.beam_size = None THEN default_beam_size
              ELSE request.beam_size[1]

\* C15, amended: the engine is called with the configured default for each of
\* language, temperature and beam_size that the request left unset, and also
\* for a language supplied as the empty string; every other supplied value
\* (temperature 0.0 and beam_size 1 among them) is passed unchanged. The
\* arguments reach transcribe as the request gave them and are resolved there.
C15_ParameterResolution ==
    engine_args # None =>
        /\ engine_args[1].language =
              IF request.language \in {None, Some("")} THEN default_language
              ELSE request.language[1]
        /\ engine_args[1].temperature =
              IF request.temperature = None THEN default_temperature
              ELSE request.temperature[1]
        /\ engine_args[1].beam_size =
              IF request.beam_size = None THEN default_beam_size
              ELSE request.beam_size[1]

\* The engine was called for a request with language "en", temperature 1.0
\* and beam_size 1, and for none of them the default was taken.
C15_Witness ==
    /\ engine_args # None
    /\ request.language = Some("en")
    /\ request.temperature = Some(10)
    /\ request.beam_size = Some(1)
    /\ engine_args[1].language = "en"
    /\ engine_args[1].temperature = 10
    /\ engine_args[1].beam_size = 1

\* `text` is `orig` without its leading and trailing whitespace.
Trimmed(orig, text) ==
    /\ text # <<>> => (text[1] \notin Whitespace /\ text[Len(text)] \notin Whitespace)
    /\ \E i \in 1..(Len(orig) + 1) : \E j \in 0..Len(orig) :
          /\ SubSeq(orig, i, j) = text
          /\ \A k \in 1..Len(orig) : (k < i \/ k > j) => orig[k] \in Whitespace

\* C16: the generator is never pulled past its end; when transcribe returns,
\* every segment has been pulled once, without include_segments the segments
\* are None, and with it they are one entry per engine segment, in the
\* engine's order, with the engine's id, start and end and the trimmed text.
C16_SegmentRetention ==
    /\ pulled <= Len(stream)
    /\ Len(full_text_parts) = pulled
    /\ result # None =>
          /\ pulled = Len(stream)
          /\ ~request.include_segments => result[1].segments = None
          /\ request.include_segments =>
                /\ result[1].segments # None
                /\ Len(result[1].segments[1]) = Len(stream)
                /\ \A i \in 1..Len(stream) :
                      LET kept == result[1].segments[1][i]
                      IN  /\ kept.id = stream[i].id
                          /\ kept.start = stream[i].start
                          /\ kept.end = stream[i].end
                          /\ Trimmed(stream[i].text, kept.text)

\* A result with the segments of a full-length stream whose first text lost
\* its surrounding whitespace and whose second text was all whitespace.
C16_Witness ==
    /\ result # None
    /\ request.include_segments
    /\ Len(stream) = MaxSegments
    /\ stream[1].text = <<160, 104, 105, 32>>
    /\ result[1].segments[1][1].text = <<104, 105>>
    /\ stream[2].text = <<12288, 12>>
    /\ result[1].segments[1][2].text = <<>>

\* C17 as stated: transcribe returns the language the engine reported when it
\* reported one (a non-empty one), and otherwise the request's language when
\* the request gave one, else the configured default.
C17_Original ==
    result # None =>
        result[1].language =
            IF info_language \notin {None, Some("")} THEN info_language[1]
            ELSE IF request.language # None THEN request.language[1]
            ELSE default_language

\* C17, amended: transcribe returns the language the engine reported when it
\* reported one (a non-empty one), and otherwise the request's language when
\* the request gave a non-empty one, else the configured default.
C17_ReturnedLanguage ==
    result # None =>
        result[1].language =
            IF info_language \notin {None, Some("")} THEN info_language[1]
            ELSE IF request.language \notin {None, Some("")} THEN request.language[1]
            ELSE default_language

\* The engine reported "fr" for a request that asked for "en": "fr" is returned.
C17_Witness ==
    /\ result # None
    /\ request.language = Some("en")
    /\ info_language = Some("fr")
    /\ result[1].language = "fr"

\* C18 as stated: a _load thread clears the loading flag only with the model or the
\* failure message already written, and neither is ever withdrawn; so a
\* wait_for_model call that was entered while the load ran and reads the flag
\* as cleared finds an outcome written, and one that ends before its timeout
\* returns or raises the captured message, never the timeout/not-started one.
C18_OutcomePublished ==
    /\ [][(loading /\ ~loading') =>
              (model' # ModelNone \/ load_error' # ErrNone)]_vars
    /\ [][/\ model # ModelNone => model' = model
          /\ load_error # ErrNone => load_error' = load_error]_vars
    /\ [][\A r \in Reqs :
              (entry[r] = "Loading" /\ rpc[r] = "w_loading" /\ rpc'[r] = "w_err")
                  => (model # ModelNone \/ load_error # ErrNone)]_vars
    /\ [](\A r \in Reqs :
              (entry[r] = "Loading" /\ WaitEnded(r) /\ elapsed[r] < MaxPolls)
                  => wres[r] \in {"returned", LoadFailedMsg})

\* C19: the temp file never holds more than the configured maximum; the chunk
\* that takes the count over the limit is counted but not written, and no
\* chunk is read after it; an upload of at most the maximum is never rejected
\* for its size; and when save_upload_to_temp returns, the size it returns is
\* the size of the upload and of the file it wrote.
C19_WrittenWithinLimit ==
    /\ [](\A r \in Reqs :
             /\ disk[r] <= MaxFileSize
             /\ disk[r] <= file_size[r]
             /\ file_size[r] <= size[r]
             /\ file_size[r] > MaxFileSize =>
                   /\ file_size[r] <= MaxFileSize + ChunkSize
                   /\ disk[r] \in {NoFile, file_size[r] - Min(ChunkSize, file_size[r])}
             /\ size[r] <= MaxFileSize => (rpc[r] # "too_large" /\ status[r] # 413)
             /\ rpc[r] = "tr_check" =>
                   (file_size[r] = size[r] /\ disk[r] = file_size[r]))
    /\ [][\A r \in Reqs :
             file_size[r] > MaxFileSize =>
                 (file_size'[r] = file_size[r] /\ disk'[r] \in {disk[r], NoFile})]_vars

\* An upload of exactly the maximum was saved with its size and transcribed,
\* and a longer one was stopped at its crossing chunk with more of the upload
\* left unread.
C19_Witness ==
    \E r1, r2 \in Reqs :
        /\ size[r1] = MaxFileSize /\ temp_file_path[r1]
        /\ file_size[r1] = MaxFileSize /\ status[r1] = 200
        /\ size[r2] > MaxFileSize + ChunkSize /\ rpc[r2] = "too_large"
        /\ file_size[r2] < size[r2] /\ disk[r2] <= MaxFileSize /\ disk[r2] # NoFile

\* The stage of transcribe_audio a request is in: 1 validation, 2 ingestion,
\* 3 the wait for the model, 4 the engine call, 5 the response or the error,
\* 6 the cleanup, 7 left.
Stage(r) ==
    CASE rpc[r] = "idle" -> 0
      [] rpc[r] = "validate" -> 1
      [] rpc[r] \in {"open", "read", "unwind", "too_large", "save_except"} -> 2
      [] rpc[r] \in {"tr_check", "w_model", "w_loading", "w_time", "w_err", "w_final"} -> 3
      [] rpc[r] \in {"engine", "in_engine"} -> 4
      [] rpc[r] \in {"tr_returned", "tr_unavailable", "tr_failed"} -> 5
      [] rpc[r] \in {"finally", "cancelled"} -> 6
      [] OTHER -> 7

\* C20: a request moves through validation, ingestion, the wait for the
\* model, the engine call, the response and the cleanup in this order, one
\* stage at a time unless a failure (or its cancellation while it reads the
\* upload) takes it straight to the cleanup; the 200 is decided only on the
\* engine's return; and while a request is at or in the engine call its
\* filename was accepted, its whole upload is in its temp file, which exists,
\* and the model is set.
C20_StagesInOrder ==
    /\ [][\A r \in Reqs :
             LET before == Stage(r)
                 after == Stage(r)'
             IN  /\ after >= before
                 /\ (after > before + 1) => (after \in {5, 6} /\ before < 5)
                 /\ (after = 6 /\ before < 5) =>
                        (status'[r] \notin {0, 200} \/ rpc'[r] = "cancelled")
                 /\ (after = 5 /\ before < 4) => rpc'[r] = "tr_unavailable"
                 /\ (status'[r] = 200 /\ status[r] # 200) => rpc[r] = "tr_returned"
                 /\ status[r] # 0 => (status'[r] = status[r] /\ after >= 6)]_vars
    /\ [](\A r \in Reqs :
             rpc[r] \in {"engine", "in_engine"} =>
                 /\ filename[r] \notin RejectedNames
                 /\ temp_file_path[r]
                 /\ file_size[r] = size[r]
                 /\ size[r] <= MaxFileSize
                 /\ disk[r] = size[r]
                 /\ status[r] = 0
                 /\ model # ModelNone)

\* A request that waited for the load is inside the engine call with its
\* upload in its temp file, after another was stopped at validation.
C20_Witness ==
    \E r1, r2 \in Reqs :
        /\ rpc[r1] = "in_engine" /\ entry[r1] = "Loading" /\ elapsed[r1] > 0
        /\ size[r1] > 0 /\ disk[r1] = size[r1]
        /\ Answered(r2) /\ status[r2] = 400

\* C21: at most one _load thread is inside the WhisperModel constructor, and
\* it holds the load lock; the loading flag is set only while some thread
\* holds the load lock; and once the model is set it is never reset and no
\* further construction is begun.
C21_ConstructionExclusive ==
    /\ [](/\ Cardinality({c \in Callers : cpc[c] = "t_inside"}) <= 1
          /\ \A c \in Callers : cpc[c] = "t_inside" => load_lock = c
          /\ loading => load_lock # NoThread)
    /\ [][model # ModelNone =>
              (model' = model /\ constructs' = constructs)]_vars

\* One _load thread is inside the constructor while a second one, spawned by
\* another load_model_async call, stands at the lock.
C21_Witness ==
    \E a, b \in Callers :
        /\ a # b
        /\ cpc[a] = "t_inside" /\ load_lock = a /\ loading
        /\ cpc[b] = "t_acquire"

\* C22 as stated: a wait_for_model call entered after load_model_async has
\* spawned its thread and returned, the thread not yet having set the loading
\* flag, raises the timeout/not-started message only when its timeout elapsed.
C22_BlocksOnceStarted ==
    \A r \in Reqs :
        (entry[r] = "Started" /\ wres[r] = NotStartedMsg)
            => elapsed[r] = MaxPolls

\* C23 as stated: the model and load_error are never set together; whenever
\* the model is set get_model_info reports it as loaded, and a wait_for_model
\* call that has left its loop with the model set finds no load_error to raise.
C23_FieldsConsistent ==
    /\ ~(model # ModelNone /\ load_error # ErrNone)
    /\ model # ModelNone => get_model_info.loaded
    /\ \A r \in Reqs :
          (rpc[r] = "w_err" /\ model # ModelNone) => ~ErrorRaised(load_error)

====
